---------------------------- MODULE Spec2Model ----------------------------
(***************************************************************************)
(* A model of json_modifier.py: the path-addressed mutation helpers        *)
(* (get_value_by_path, set_value_by_path, remove_value_by_path), the type  *)
(* caster (get_type_from_value, cast_value), the two mergers               *)
(* (update_from_csv, update_from_static_config) and the loops of main().   *)
(*                                                                         *)
(* Python objects live in a heap: a dict or a list is a node at an         *)
(* address, and a value that is a container is a reference to its node, so *)
(* that storing a container stores the reference (as Python does).         *)
(* Strings are sequences of one-character strings, so that int(), float(), *)
(* str.lower(), str() and json.loads() are computed and not assumed.       *)
(***************************************************************************)
EXTENDS Integers, Sequences, FiniteSets, TLC

VARIABLES
    heap,      \* address -> node: the dicts and lists of the process
    doc,       \* json_data of main(): the loaded top-level value
    csv,       \* csv_data of main(): the rows, each a column -> text map
    mapping,   \* mapping of main(): the (column, path) entries, in order
    config,    \* static_config of main(): the directive entries, in order
    pc,        \* the position of main()
    ri,        \* index of the current row of csv_data
    oi,        \* index of the current object of a list document
    mi,        \* index of the current mapping entry inside update_from_csv
    di,        \* index of the current entry inside update_from_static_config
    ev,        \* what the last step did (for stating the properties)
    hpre,      \* the heap before the last step
    hcall,     \* the heap when the current call of update_from_csv began
    hcfg,      \* the heap when the override phase began
    log,       \* the merger calls made so far, in order
    castIn,    \* the value handed to the cast round trip
    castOut    \* what cast_value returned for it

vars == <<heap, doc, csv, mapping, config, pc, ri, oi, mi, di, ev, hpre, hcall,
          hcfg, log, castIn, castOut>>

---------------------------------------------------------------------------
(* Bounds of the model.                                                    *)

\* Number of heap addresses.
MaxAddr == 12
\* Integers of the cast round trip range over -MaxInt .. MaxInt.
MaxInt == 40
\* Floats of the cast round trip have mantissas in -MaxMant .. MaxMant.
MaxMant == 12
\* Floats of the cast round trip have up to MaxScale fractional digits.
MaxScale == 2
\* Operations applied in a row by the path-operation runs.
MaxOps == 2

Addrs == 1..MaxAddr

\* The field names documents and paths use.
Keys == {"id", "a", "b", "l"}
\* The same, in a fixed order (for walking a dict's keys).
KeySeq == <<"id", "a", "b", "l">>
\* The column names rows and mappings use.
Cols == {"ID", "x", "y"}

---------------------------------------------------------------------------
(* Values.  A Python value is a record [t, n, e, s]: t is the runtime     *)
(* type, n the integer payload (an int, a bool as 0/1, a float's decimal   *)
(* mantissa, a reference's address), e a float's number of fractional      *)
(* digits, s a str's characters.                                           *)

VNull == [t |-> "Null", n |-> 0, e |-> 0, s |-> <<>>]
VAbsent == [t |-> "Absent", n |-> 0, e |-> 0, s |-> <<>>]
VStr(s) == [t |-> "Str", n |-> 0, e |-> 0, s |-> s]
VInt(n) == [t |-> "Int", n |-> n, e |-> 0, s |-> <<>>]
VBool(b) == [t |-> "Bool", n |-> IF b THEN 1 ELSE 0, e |-> 0, s |-> <<>>]
VFloat(n, e) == [t |-> "Float", n |-> n, e |-> e, s |-> <<>>]
VRef(a) == [t |-> "Ref", n |-> a, e |-> 0, s |-> <<>>]

EmptyM == [k \in Keys |-> VAbsent]
FreeNode == [k |-> "Free", m |-> EmptyM, l |-> <<>>]
MapNode(m) == [k |-> "Map", m |-> m, l |-> <<>>]
ListNode(l) == [k |-> "List", m |-> EmptyM, l |-> l]

EmptyHeap == [a \in Addrs |-> FreeNode]

\* The address a newly created dict or list gets.
Alloc(h) == CHOOSE a \in Addrs : h[a].k = "Free" /\ \A b \in Addrs : h[b].k = "Free" => a <= b

IsMap(h, v) == v.t = "Ref" /\ h[v.n].k = "Map"
IsList(h, v) == v.t = "Ref" /\ h[v.n].k = "List"

---------------------------------------------------------------------------
(* Strings.                                                                *)

DigitSeq == <<"0", "1", "2", "3", "4", "5", "6", "7", "8", "9">>
IsDigit(c) == \E i \in 1..10 : DigitSeq[i] = c
DigitOf(c) == (CHOOSE i \in 1..10 : DigitSeq[i] = c) - 1

UpperSeq == <<"A", "B", "C", "D", "E", "F", "G", "H", "I", "J", "K", "L", "M",
              "N", "O", "P", "Q", "R", "S", "T", "U", "V", "W", "X", "Y", "Z">>
LowerSeq == <<"a", "b", "c", "d", "e", "f", "g", "h", "i", "j", "k", "l", "m",
              "n", "o", "p", "q", "r", "s", "t", "u", "v", "w", "x", "y", "z">>

\* str.lower(), one character.
LowerChar(c) == IF \E i \in 1..26 : UpperSeq[i] = c
                THEN LowerSeq[CHOOSE i \in 1..26 : UpperSeq[i] = c]
                ELSE c
\* str.lower().
Lower(s) == [i \in 1..Len(s) |-> LowerChar(s[i])]

RECURSIVE LStrip(_)
LStrip(s) == IF s # <<>> /\ s[1] = " " THEN LStrip(Tail(s)) ELSE s
RECURSIVE RStrip(_)
RStrip(s) == IF s # <<>> /\ s[Len(s)] = " " THEN RStrip(SubSeq(s, 1, Len(s) - 1)) ELSE s
\* str.strip() of spaces, which int() and float() apply first.
Strip(s) == RStrip(LStrip(s))

AllDigits(s) == \A i \in 1..Len(s) : IsDigit(s[i])

RECURSIVE DigitsValue(_)
DigitsValue(s) == IF s = <<>> THEN 0
                  ELSE 10 * DigitsValue(SubSeq(s, 1, Len(s) - 1)) + DigitOf(s[Len(s)])

RECURSIVE NatToStr(_)
NatToStr(n) == IF n < 10 THEN <<DigitSeq[n + 1]>>
               ELSE NatToStr(n \div 10) \o <<DigitSeq[(n % 10) + 1]>>

\* str(x) of an int.
IntToStr(n) == IF n < 0 THEN <<"-">> \o NatToStr(0 - n) ELSE NatToStr(n)

HasSign(s) == s # <<>> /\ s[1] \in {"+", "-"}
Unsigned(s) == IF HasSign(s) THEN Tail(s) ELSE s
SignOf(s) == IF s # <<>> /\ s[1] = "-" THEN 0 - 1 ELSE 1

\* int(s): spaces stripped, an optional sign, one or more digits.
IntOk(s) == Unsigned(Strip(s)) # <<>> /\ AllDigits(Unsigned(Strip(s)))
IntOf(s) == SignOf(Strip(s)) * DigitsValue(Unsigned(Strip(s)))

DotAt(s) == IF \E i \in 1..Len(s) : s[i] = "."
            THEN CHOOSE i \in 1..Len(s) : s[i] = "." /\ \A j \in 1..(i - 1) : s[j] # "."
            ELSE 0

RECURSIVE Pow10(_)
Pow10(k) == IF k = 0 THEN 1 ELSE 10 * Pow10(k - 1)

\* A decimal mantissa and scale with the trailing zeros of the fraction dropped.
RECURSIVE NormFloat(_, _)
NormFloat(n, e) == IF e > 0 /\ n % 10 = 0 THEN NormFloat(n \div 10, e - 1) ELSE VFloat(n, e)

\* float(s) on decimal notation: spaces stripped, an optional sign, digits
\* with an optional point, at least one digit.
FloatOk(s) ==
    LET u == Unsigned(Strip(s))
        d == DotAt(u)
        ip == IF d = 0 THEN u ELSE SubSeq(u, 1, d - 1)
        fp == IF d = 0 THEN <<>> ELSE SubSeq(u, d + 1, Len(u))
    IN  AllDigits(ip) /\ AllDigits(fp) /\ Len(ip) + Len(fp) > 0
FloatOf(s) ==
    LET u == Unsigned(Strip(s))
        d == DotAt(u)
        ip == IF d = 0 THEN u ELSE SubSeq(u, 1, d - 1)
        fp == IF d = 0 THEN <<>> ELSE SubSeq(u, d + 1, Len(u))
    IN  NormFloat(SignOf(Strip(s)) * (DigitsValue(ip) * Pow10(Len(fp)) + DigitsValue(fp)), Len(fp))

\* The digits of a fraction, left-padded with zeros to the scale.
RECURSIVE PadFrac(_, _)
PadFrac(s, e) == IF Len(s) < e THEN PadFrac(<<"0">> \o s, e) ELSE s

\* str(x) of a float in positional notation: at least one fractional digit.
FloatToStr(v) ==
    LET a == IF v.n < 0 THEN 0 - v.n ELSE v.n
        p == Pow10(v.e)
    IN  (IF v.n < 0 THEN <<"-">> ELSE <<>>) \o NatToStr(a \div p) \o <<".">> \o
        (IF v.e = 0 THEN <<"0">> ELSE PadFrac(NatToStr(a % p), v.e))

\* str(x) of a scalar, as Python prints it.
PyStr(v) == CASE v.t = "Int" -> IntToStr(v.n)
              [] v.t = "Float" -> FloatToStr(v)
              [] v.t = "Bool" -> IF v.n = 1 THEN <<"T", "r", "u", "e">> ELSE <<"F", "a", "l", "s", "e">>
              [] v.t = "Null" -> <<"N", "o", "n", "e">>
              [] OTHER -> v.s


---------------------------------------------------------------------------
(* json.loads on the fragment of JSON the model's texts use: null, true,   *)
(* false, numbers in decimal notation, and arrays of those ("[]" and "{}"  *)
(* included).  Anything else raises.                                       *)

\* A JSON integer: an optional minus, digits, no leading zero.
JsonIntOk(s) ==
    LET u == IF s # <<>> /\ s[1] = "-" THEN Tail(s) ELSE s
    IN  u # <<>> /\ AllDigits(u) /\ (Len(u) > 1 => u[1] # "0")
\* A JSON number with a fraction: a JSON integer, a point, one or more digits.
JsonFracOk(s) ==
    LET d == DotAt(s)
    IN  d > 1 /\ d < Len(s) /\ JsonIntOk(SubSeq(s, 1, d - 1)) /\ AllDigits(SubSeq(s, d + 1, Len(s)))

JsonScalarOk(s) ==
    \/ s \in {<<"n", "u", "l", "l">>, <<"t", "r", "u", "e">>, <<"f", "a", "l", "s", "e">>}
    \/ JsonIntOk(s)
    \/ JsonFracOk(s)
JsonScalar(s) ==
    CASE s = <<"n", "u", "l", "l">> -> VNull
      [] s = <<"t", "r", "u", "e">> -> VBool(TRUE)
      [] s = <<"f", "a", "l", "s", "e">> -> VBool(FALSE)
      [] JsonIntOk(s) -> VInt(IntOf(s))
      [] OTHER -> FloatOf(s)

\* The pieces of s between its commas.
RECURSIVE SplitComma(_)
SplitComma(s) ==
    IF \E i \in 1..Len(s) : s[i] = ","
    THEN LET c == CHOOSE i \in 1..Len(s) : s[i] = "," /\ \A j \in 1..(i - 1) : s[j] # ","
         IN  <<SubSeq(s, 1, c - 1)>> \o SplitComma(SubSeq(s, c + 1, Len(s)))
    ELSE <<s>>

\* json.loads(s): [ok, h, v]; a parsed array or object is a new node of h.
JsonLoads(h, raw) ==
    LET s == Strip(raw)
        inner == IF Len(s) >= 2 THEN Strip(SubSeq(s, 2, Len(s) - 1)) ELSE <<>>
        parts == SplitComma(inner)
    IN  IF JsonScalarOk(s)
        THEN [ok |-> TRUE, h |-> h, v |-> JsonScalar(s)]
        ELSE IF Len(s) >= 2 /\ s[1] = "{" /\ s[Len(s)] = "}" /\ inner = <<>>
        THEN [ok |-> TRUE, h |-> [h EXCEPT ![Alloc(h)] = MapNode(EmptyM)], v |-> VRef(Alloc(h))]
        ELSE IF Len(s) >= 2 /\ s[1] = "[" /\ s[Len(s)] = "]" /\ inner = <<>>
        THEN [ok |-> TRUE, h |-> [h EXCEPT ![Alloc(h)] = ListNode(<<>>)], v |-> VRef(Alloc(h))]
        ELSE IF /\ Len(s) >= 2 /\ s[1] = "[" /\ s[Len(s)] = "]"
                /\ \A i \in 1..Len(parts) : JsonScalarOk(Strip(parts[i]))
        THEN [ok |-> TRUE,
              h |-> [h EXCEPT ![Alloc(h)] =
                        ListNode([i \in 1..Len(parts) |-> JsonScalar(Strip(parts[i]))])],
              v |-> VRef(Alloc(h))]
        ELSE [ok |-> FALSE, h |-> h, v |-> VNull]

---------------------------------------------------------------------------
(* The type caster.                                                        *)

\* get_type_from_value: type(value); type(None) for None.
get_type_from_value(h, v) ==
    IF v.t = "Ref" THEN h[v.n].k ELSE v.t

\* The tokens cast_value takes for True.
TrueTokens == {<<"t", "r", "u", "e">>, <<"1">>, <<"y", "e", "s">>}

\* The boolean test without lower().
BoolOfCaseSensitive(value) == value \in TrueTokens

\* value.lower() in ('true', '1', 'yes').
BoolOf(value) == Lower(value) \in TrueTokens

\* cast_value(value, target_type) for a str value: [h, v].  Every exception
\* is caught inside and the str itself is returned.
cast_value(h, value, target_type) ==
    CASE target_type = "Str" -> [h |-> h, v |-> VStr(value)]
      [] target_type = "Int" ->
            IF IntOk(value) THEN [h |-> h, v |-> VInt(IntOf(value))]
            ELSE [h |-> h, v |-> VStr(value)]
      [] target_type = "Float" ->
            IF FloatOk(value) THEN [h |-> h, v |-> FloatOf(value)]
            ELSE [h |-> h, v |-> VStr(value)]
      [] target_type = "Bool" -> [h |-> h, v |-> VBool(BoolOf(value))]
      [] target_type = "List" ->
            IF value = <<>>
            THEN [h |-> [h EXCEPT ![Alloc(h)] = ListNode(<<>>)], v |-> VRef(Alloc(h))]
            ELSE IF JsonLoads(h, value).ok
            THEN [h |-> JsonLoads(h, value).h, v |-> JsonLoads(h, value).v]
            ELSE [h |-> h, v |-> VStr(value)]
      [] target_type = "Map" ->
            IF value = <<>>
            THEN [h |-> [h EXCEPT ![Alloc(h)] = MapNode(EmptyM)], v |-> VRef(Alloc(h))]
            ELSE IF JsonLoads(h, value).ok
            THEN [h |-> JsonLoads(h, value).h, v |-> JsonLoads(h, value).v]
            ELSE [h |-> h, v |-> VStr(value)]
      [] OTHER -> [h |-> h, v |-> VStr(value)]

---------------------------------------------------------------------------
(* Paths.  parse(path) yields a chain of steps under the root: a field     *)
(* name or a sequence index (0-based, as Python counts).                   *)

Fld(f) == [k |-> "F", f |-> f, i |-> 0]
Idx(i) == [k |-> "I", f |-> "", i |-> i]

\* Python truthiness of a value (`if datum.value and ...` of an index step).
Truthy(h, v) ==
    CASE v.t = "Null" -> FALSE
      [] v.t = "Str" -> v.s # <<>>
      [] v.t \in {"Int", "Float", "Bool"} -> v.n # 0
      [] v.t = "Ref" /\ h[v.n].k = "Map" -> \E k \in Keys : h[v.n].m[k] # VAbsent
      [] v.t = "Ref" /\ h[v.n].k = "List" -> h[v.n].l # <<>>
      [] OTHER -> FALSE

\* len(v) where it is defined.
PyLen(h, v) ==
    CASE v.t = "Str" -> Len(v.s)
      [] v.t = "Ref" /\ h[v.n].k = "Map" -> Cardinality({k \in Keys : h[v.n].m[k] # VAbsent})
      [] v.t = "Ref" /\ h[v.n].k = "List" -> Len(h[v.n].l)
      [] OTHER -> 0

\* One step of expr.find on the datum cur: a match, no match, or an
\* exception.  A field step reads dict.get(field) and takes None for no
\* match; an index step reads value[index] when the value is truthy and
\* longer than the index.
FindStep(h, cur, step) ==
    IF step.k = "F"
    THEN IF IsMap(h, cur) /\ h[cur.n].m[step.f] \notin {VAbsent, VNull}
         THEN [st |-> "match", v |-> h[cur.n].m[step.f]]
         ELSE [st |-> "none", v |-> VNull]
    ELSE IF ~Truthy(h, cur) THEN [st |-> "none", v |-> VNull]
    ELSE IF cur.t \in {"Int", "Float", "Bool"} THEN [st |-> "exc", v |-> VNull]
    ELSE IF PyLen(h, cur) <= step.i THEN [st |-> "none", v |-> VNull]
    ELSE IF IsList(h, cur) THEN [st |-> "match", v |-> h[cur.n].l[step.i + 1]]
    ELSE IF cur.t = "Str" THEN [st |-> "match", v |-> VStr(<<cur.s[step.i + 1]>>)]
    ELSE [st |-> "exc", v |-> VNull]

\* expr.find(obj): the first match of a non-empty path, with its context
\* (the parent datum) and its last step.
RECURSIVE Find(_, _, _)
Find(h, cur, path) ==
    LET r == FindStep(h, cur, Head(path))
    IN  IF r.st # "match" THEN [st |-> r.st, v |-> VNull, parent |-> cur, step |-> Head(path)]
        ELSE IF Len(path) = 1
        THEN [st |-> "match", v |-> r.v, parent |-> cur, step |-> Head(path)]
        ELSE Find(h, r.v, Tail(path))

\* get_value_by_path: the first match's value; None when there is no match
\* or the evaluation raises.
get_value_by_path(h, obj, path) ==
    IF Find(h, obj, path).st = "match" THEN Find(h, obj, path).v ELSE VNull

\* del list[i].
DelAt(l, i) == SubSeq(l, 1, i) \o SubSeq(l, i + 2, Len(l))

\* remove_value_by_path that deletes from lists alone.
RemoveListsOnly(h, obj, path) ==
    LET r == Find(h, obj, path)
    IN  IF r.st = "match" /\ IsList(h, r.parent) /\ r.step.k = "I"
        THEN [h EXCEPT ![r.parent.n].l = DelAt(@, r.step.i)]
        ELSE h

\* remove_value_by_path: the heap afterwards.  Nothing is removed when there
\* is no match, when the parent and the last step disagree, or on an
\* exception.
remove_value_by_path(h, obj, path) ==
    LET r == Find(h, obj, path)
    IN  IF r.st # "match" THEN h
        ELSE IF IsMap(h, r.parent) /\ r.step.k = "F"
        THEN [h EXCEPT ![r.parent.n].m[r.step.f] = VAbsent]
        ELSE IF IsList(h, r.parent) /\ r.step.k = "I"
        THEN [h EXCEPT ![r.parent.n].l = DelAt(@, r.step.i)]
        ELSE h

\* expr.update_or_create(obj, value) for a path of field steps: [st, h].
\* Every step but the last is found or created (a missing or None field of a
\* dict becomes a new dict; a datum that is no dict yields no match, and
\* then nothing is written); the last step assigns into its parent, which
\* raises TypeError when the parent is no dict.
RECURSIVE UpdateOrCreate(_, _, _, _)
UpdateOrCreate(h, cur, path, value) ==
    IF Len(path) = 1
    THEN IF IsMap(h, cur)
         THEN [st |-> "ok", h |-> [h EXCEPT ![cur.n].m[Head(path).f] = value]]
         ELSE [st |-> "raise", h |-> h]
    ELSE IF ~IsMap(h, cur) THEN [st |-> "noop", h |-> h]
    ELSE IF h[cur.n].m[Head(path).f] \in {VAbsent, VNull}
    THEN LET a == Alloc(h)
             h1 == [h EXCEPT ![a] = MapNode(EmptyM), ![cur.n].m[Head(path).f] = VRef(a)]
         IN  UpdateOrCreate(h1, VRef(a), Tail(path), value)
    ELSE UpdateOrCreate(h, h[cur.n].m[Head(path).f], Tail(path), value)

\* set_value_by_path through expr.update: an existing location is
\* overwritten, a missing one is not created.
SetExistingOnly(h, obj, path, value) ==
    IF Find(h, obj, path).st = "match"
    THEN UpdateOrCreate(h, obj, path, value)
    ELSE [st |-> "ok", h |-> h]

\* set_value_by_path: [st, h]; an exception of update_or_create propagates.
set_value_by_path(h, obj, path, value) == UpdateOrCreate(h, obj, path, value)

---------------------------------------------------------------------------
(* The mergers, one loop body at a time.                                   *)

\* A new field whose type is sniffed from the text: an int when it parses.
InferredSniffed(h, raw) == cast_value(h, raw, "Int")

\* The default type of a new field: cast_value(new_value, str).
InferredValue(h, raw) == cast_value(h, raw, "Str")

\* isinstance(current_value, (list, dict)) and
\* not isinstance(casted_value, type(current_value)).
ContainerMismatch(h, current, h2, casted) ==
    /\ current.t = "Ref"
    /\ ~(casted.t = "Ref" /\ h2[casted.n].k = h[current.n].k)

\* The branch of update_from_csv for a path that holds a value, given the
\* cast c = [h, v] and the outcome w of the write inside the try.
CsvUpdate(h, cur, c, w) ==
    IF ContainerMismatch(h, cur, c.h, c.v)
    THEN [h |-> h, out |-> "mismatch", cur |-> cur]
    ELSE IF w.st = "raise"
    THEN [h |-> h, out |-> "caught", cur |-> cur]
    ELSE [h |-> w.h, out |-> "updated", cur |-> cur]

\* The branch for a path that holds nothing, given the outcome w of the
\* write, which no try encloses.
CsvCreate(h, cur, w) ==
    IF w.st = "raise"
    THEN [h |-> h, out |-> "raise", cur |-> cur]
    ELSE [h |-> w.h, out |-> IF w.st = "ok" THEN "created" ELSE "nowrite", cur |-> cur]

\* set_value_by_path(json_data, json_path, c) for the cast c = [h, v].
CsvWrite(obj, path, c) == set_value_by_path(c.h, obj, path, c.v)

\* The cast value c is checked against the current one, then written.
CsvExisting(h, obj, path, cur, c) == CsvUpdate(h, cur, c, CsvWrite(obj, path, c))

\* The iteration for the row's text raw, given the current value cur at the
\* entry's path.
CsvEntryAt(h, obj, raw, e, cur) ==
    IF raw = VAbsent \/ e.col = "ID"
    THEN [h |-> h, out |-> "skip", cur |-> cur]
    ELSE IF cur # VNull
    THEN CsvExisting(h, obj, e.path, cur, cast_value(h, raw.s, get_type_from_value(h, cur)))
    ELSE CsvCreate(h, cur, CsvWrite(obj, e.path, InferredValue(h, raw.s)))

\* One iteration of the loop of update_from_csv, for the mapping entry
\* e = [col, path] and the row: [h, out, cur].  out tells the branch taken;
\* "raise" is an exception that leaves update_from_csv.
CsvEntry(h, obj, row, e) ==
    CsvEntryAt(h, obj, row[e.col], e, get_value_by_path(h, obj, e.path))

\* One iteration of the loop of update_from_static_config, for the entry d:
\* [h, out, cur].  An entry is [path, op, hasValue, value, dict]; path <<>>
\* and op "" stand for a key that is missing or empty.  entry.get raises on
\* an entry that is no dict, and so does set_value_by_path on a parent that
\* is none: both leave update_from_static_config ("raise").
DirEntry(h, obj, d) ==
    LET cur == IF d.path = <<>> THEN VNull ELSE get_value_by_path(h, obj, d.path)
        w == set_value_by_path(h, obj, d.path, d.value)
    IN  IF ~d.dict
        THEN [h |-> h, out |-> "raise", cur |-> cur]
        ELSE IF d.path = <<>> \/ d.op = ""
        THEN [h |-> h, out |-> "invalid", cur |-> cur]
        ELSE IF d.op \notin {"update", "remove"}
        THEN [h |-> h, out |-> "invalid", cur |-> cur]
        ELSE IF d.op = "remove"
        THEN [h |-> remove_value_by_path(h, obj, d.path), out |-> "remove", cur |-> cur]
        ELSE IF ~d.hasValue
        THEN [h |-> h, out |-> "novalue", cur |-> cur]
        ELSE IF cur # VNull /\ get_type_from_value(h, cur) # get_type_from_value(h, d.value)
        THEN [h |-> h, out |-> "mismatch", cur |-> cur]
        ELSE IF w.st = "raise"
        THEN [h |-> h, out |-> "raise", cur |-> cur]
        ELSE [h |-> w.h,
              out |-> IF w.st = "noop" THEN "nowrite"
                      ELSE IF cur # VNull THEN "updated" ELSE "created",
              cur |-> cur]

---------------------------------------------------------------------------
(* Loading.  json.load builds a fresh dict or list for every object and    *)
(* array of the file; a file's content is written here as a tree.          *)

TS(v) == [t |-> "S", v |-> v, kv |-> <<>>, el |-> <<>>]
TM(kv) == [t |-> "M", v |-> VNull, kv |-> kv, el |-> <<>>]
TL(el) == [t |-> "L", v |-> VNull, kv |-> <<>>, el |-> el]

RECURSIVE Load(_, _)
RECURSIVE LoadFields(_, _, _)
RECURSIVE LoadItems(_, _, _)
\* The members kv of the dict at address a.
LoadFields(h, a, kv) ==
    IF kv = <<>> THEN h
    ELSE LET r == Load(h, Head(kv)[2])
         IN  LoadFields([r.h EXCEPT ![a].m[Head(kv)[1]] = r.v], a, Tail(kv))
\* The elements el of the list at address a.
LoadItems(h, a, el) ==
    IF el = <<>> THEN h
    ELSE LET r == Load(h, Head(el))
         IN  LoadItems([r.h EXCEPT ![a].l = Append(@, r.v)], a, Tail(el))
\* json.load of one tree: [h, v].
Load(h, tree) ==
    CASE tree.t = "S" -> [h |-> h, v |-> tree.v]
      [] tree.t = "M" ->
            [h |-> LoadFields([h EXCEPT ![Alloc(h)] = MapNode(EmptyM)], Alloc(h), tree.kv),
             v |-> VRef(Alloc(h))]
      [] OTHER ->
            [h |-> LoadItems([h EXCEPT ![Alloc(h)] = ListNode(<<>>)], Alloc(h), tree.el),
             v |-> VRef(Alloc(h))]

\* A directive of the static file: path <<>> or op "" for a missing key, and
\* no value tree (<<>>) for a missing "value"; dict tells that the element
\* is an object at all.
Dir(path, op, val) == [path |-> path, op |-> op, val |-> val, dict |-> TRUE]
\* An element of the static file's list that is no object (a string, say).
NotAnObject == [path |-> <<>>, op |-> "", val |-> <<>>, dict |-> FALSE]

\* json.load of the static file: [h, c], c the entries with their values
\* loaded.
RECURSIVE LoadConfig(_, _)
LoadConfig(h, ds) ==
    IF ds = <<>> THEN [h |-> h, c |-> <<>>]
    ELSE LET d == Head(ds)
             r == IF d.val = <<>> THEN [h |-> h, v |-> VNull] ELSE Load(h, d.val[1])
             rest == LoadConfig(r.h, Tail(ds))
         IN  [h |-> rest.h,
              c |-> <<[path |-> d.path, op |-> d.op, hasValue |-> d.val # <<>>,
                       value |-> r.v, dict |-> d.dict]>> \o rest.c]

\* A row of csv.DictReader: column -> text, VAbsent for a column the file
\* does not have.
Row(id, x, y) == [c \in Cols |-> CASE c = "ID" -> id [] c = "x" -> x [] OTHER -> y]

---------------------------------------------------------------------------
(* The inputs of the runs: documents, tables, mappings and directive       *)
(* lists, as the four files would hold them.                               *)

S1 == VStr(<<"1">>)
S2 == VStr(<<"2">>)
Pa == <<Fld("a")>>
Pb == <<Fld("b")>>
Pl == <<Fld("l")>>
Pid == <<Fld("id")>>
Pab == <<Fld("a"), Fld("b")>>
Pbab == <<Fld("b"), Fld("a"), Fld("b")>>
Pl0 == <<Fld("l"), Idx(0)>>
Pl2 == <<Fld("l"), Idx(2)>>
Pb0 == <<Fld("b"), Idx(0)>>

L123 == TL(<<TS(VInt(1)), TS(VInt(2)), TS(VInt(3))>>)

DocTrees == <<
    \* {"id":"1","a":5,"b":"yes","l":[1,2,3]}
    TM(<<<<"id", TS(S1)>>, <<"a", TS(VInt(5))>>, <<"b", TS(VStr(<<"y", "e", "s">>))>>,
         <<"l", L123>>>>),
    \* {"id":"1","a":{"b":1.5},"b":null}
    TM(<<<<"id", TS(S1)>>, <<"a", TM(<<<<"b", TS(VFloat(15, 1))>>>>)>>, <<"b", TS(VNull)>>>>),
    \* {"id":"1","a":true,"b":2.5,"l":{}}
    TM(<<<<"id", TS(S1)>>, <<"a", TS(VBool(TRUE))>>, <<"b", TS(VFloat(25, 1))>>,
         <<"l", TM(<<>>)>>>>),
    \* [{"id":"1","a":5},{"id":"1"}]
    TL(<<TM(<<<<"id", TS(S1)>>, <<"a", TS(VInt(5))>>>>), TM(<<<<"id", TS(S1)>>>>)>>),
    \* [{"id":"2","a":{"b":"s"}},{"id":"1","l":[1,2]}]
    TL(<<TM(<<<<"id", TS(S2)>>, <<"a", TM(<<<<"b", TS(VStr(<<"s">>))>>>>)>>>>),
         TM(<<<<"id", TS(S1)>>, <<"l", TL(<<TS(VInt(1)), TS(VInt(2))>>)>>>>)>>),
    \* {"a":"s","l":[1,2,3]}: an object without an id
    TM(<<<<"a", TS(VStr(<<"s">>))>>, <<"l", L123>>>>),
    \* "x": neither an object nor a list
    TS(VStr(<<"x">>))
>>

CsvFiles == <<
    <<Row(S1, VStr(<<"9">>), VStr(<<"a", "b", "c">>))>>,
    <<Row(S2, VStr(<<"T", "r", "u", "e">>), VAbsent),
      Row(S1, VStr(<<"a", "b", "c">>), VStr(<<>>)),
      Row(S1, VStr(<<"7">>), VStr(<<"[", "1", ",", "2", "]">>))>>,
    <<Row(VStr(<<"3">>), VStr(<<"1", ".", "5">>), VStr(<<"y", "e", "s">>))>>,
    <<Row(VAbsent, VStr(<<" ", "4", "2", " ">>), VStr(<<"5">>))>>
>>

Ent(col, path) == [col |-> col, path |-> path]

MappingFiles == <<
    <<Ent("x", Pa), Ent("y", Pb)>>,
    <<Ent("ID", Pid), Ent("x", Pab), Ent("y", Pl)>>,
    <<Ent("y", Pa), Ent("x", Pbab)>>
>>

ConfigFiles == <<
    <<Dir(Pb, "update", <<TS(VBool(TRUE))>>)>>,
    <<Dir(Pa, "update", <<TS(VInt(7))>>), Dir(Pa, "update", <<TS(VStr(<<"s">>))>>)>>,
    <<Dir(Pl, "update", <<L123>>), Dir(Pl0, "remove", <<>>)>>,
    <<Dir(Pa, "remove", <<>>), Dir(Pab, "update", <<TS(VInt(1))>>)>>,
    <<Dir(<<>>, "update", <<TS(VInt(1))>>), Dir(Pa, "delete", <<>>),
      Dir(Pa, "update", <<>>), Dir(Pb, "", <<TS(VInt(1))>>),
      Dir(Pab, "update", <<TS(VInt(1))>>)>>,
    <<Dir(Pa, "update", <<TM(<<<<"b", TS(VInt(1))>>>>)>>), Dir(Pab, "remove", <<>>),
      Dir(Pb, "update", <<TS(VNull)>>)>>,
    <<Dir(Pl2, "remove", <<>>), Dir(Pb, "remove", <<>>), Dir(Pb0, "remove", <<>>)>>,
    <<Dir(Pbab, "update", <<TS(VInt(3))>>), Dir(Pb, "update", <<TS(VFloat(5, 1))>>),
      Dir(Pa, "update", <<TS(VInt(8))>>)>>,
    <<Dir(Pb, "remove", <<>>), NotAnObject, Dir(Pa, "update", <<TS(VInt(8))>>)>>,
    <<>>
>>

---------------------------------------------------------------------------
(* main().                                                                 *)

NoEv == [kind |-> "none", obj |-> VNull, path |-> <<>>, col |-> "", raw |-> VAbsent,
         op |-> "", hasValue |-> FALSE, value |-> VNull, cur |-> VNull, out |-> ""]

\* The state after the four loads.
Init ==
    \E d \in 1..Len(DocTrees), c \in 1..Len(CsvFiles),
       m \in 1..Len(MappingFiles), g \in 1..Len(ConfigFiles) :
        LET r1 == Load(EmptyHeap, DocTrees[d])
            r2 == LoadConfig(r1.h, ConfigFiles[g])
        IN  /\ heap = r2.h
            /\ doc = r1.v
            /\ csv = CsvFiles[c]
            /\ mapping = MappingFiles[m]
            /\ config = r2.c
            /\ pc = "start"
            /\ ri = 1 /\ oi = 1 /\ mi = 1 /\ di = 1
            /\ ev = NoEv
            /\ hpre = r2.h /\ hcall = r2.h /\ hcfg = r2.h
            /\ log = <<>>
            /\ castIn = VAbsent /\ castOut = VAbsent

\* isinstance(json_data, dict): one object; otherwise a list of objects.
IsSingle == IsMap(heap, doc)
NumObjs == IF IsSingle THEN 1 ELSE Len(heap[doc.n].l)
ObjAt(i) == IF IsSingle THEN doc ELSE heap[doc.n].l[i]

\* row.get("ID") == obj.get("id"): a missing key reads as None.
RowMatches(h, row, obj) ==
    (IF row["ID"] = VAbsent THEN VNull ELSE row["ID"])
        = (IF h[obj.n].m["id"] = VAbsent THEN VNull ELSE h[obj.n].m["id"])

\* The overrides first, then the table.
PhaseOrderSwapped == <<"cfg", "rows">>

\* The order of the two phases of main: the table first, then the overrides.
PhaseOrder == <<"rows", "cfg">>
PhaseAfter(p) == IF p = PhaseOrder[1] THEN PhaseOrder[2] ELSE "save"

\* Control passes from phase p to the next one.
Leave(p) ==
    /\ pc' = PhaseAfter(p)
    /\ ri' = 1 /\ oi' = 1 /\ mi' = 1 /\ di' = 1
    /\ hcfg' = IF PhaseAfter(p) = "cfg" THEN heap ELSE hcfg

\* main enters its first phase, or exits on a document that is neither a
\* dict nor a list.
Start ==
    /\ pc = "start"
    /\ pc' = IF IsMap(heap, doc) \/ IsList(heap, doc) THEN PhaseOrder[1] ELSE "exit"
    /\ UNCHANGED <<heap, doc, csv, mapping, config, ri, oi, mi, di, ev, hpre, hcall,
                   hcfg, log, castIn, castOut>>

\* One evaluation of the row loops of main: the loop headers and the
\* comparison of the row's ID with the object's id.
RowStep ==
    /\ pc = "rows"
    /\ IF ri > Len(csv)
       THEN Leave("rows") /\ UNCHANGED <<hcall, log>>
       ELSE IF oi > NumObjs
       THEN /\ ri' = ri + 1 /\ oi' = 1
            /\ UNCHANGED <<pc, mi, di, hcfg, hcall, log>>
       ELSE IF ~IsMap(heap, ObjAt(oi))
       THEN /\ pc' = "crashed"
            /\ UNCHANGED <<ri, oi, mi, di, hcfg, hcall, log>>
       ELSE IF RowMatches(heap, csv[ri], ObjAt(oi))
       THEN /\ pc' = "upd" /\ mi' = 1
            /\ hcall' = heap
            /\ log' = Append(log, [k |-> "csv", o |-> oi, i |-> ri, out |-> ""])
            /\ UNCHANGED <<ri, oi, di, hcfg>>
       ELSE /\ IF IsSingle THEN ri' = ri + 1 /\ oi' = oi ELSE oi' = oi + 1 /\ ri' = ri
            /\ UNCHANGED <<pc, mi, di, hcfg, hcall, log>>
    /\ ev' = [NoEv EXCEPT !.kind = "row"]
    /\ hpre' = heap
    /\ UNCHANGED <<heap, doc, csv, mapping, config, castIn, castOut>>

\* One iteration of the loop of update_from_csv for the current row and
\* object, or its return to main (which breaks out of the row loop for a
\* single object).
CsvStep ==
    /\ pc = "upd"
    /\ IF mi > Len(mapping)
       THEN /\ IF IsSingle
               THEN Leave("rows")
               ELSE /\ pc' = "rows" /\ oi' = oi + 1
                    /\ UNCHANGED <<ri, mi, di, hcfg>>
            /\ ev' = [NoEv EXCEPT !.kind = "ret", !.obj = ObjAt(oi)]
            /\ heap' = heap
       ELSE \E r \in {CsvEntry(heap, ObjAt(oi), csv[ri], mapping[mi])} :
                /\ heap' = r.h
                /\ ev' = [NoEv EXCEPT !.kind = "csv", !.obj = ObjAt(oi),
                                      !.path = mapping[mi].path, !.col = mapping[mi].col,
                                      !.raw = csv[ri][mapping[mi].col],
                                      !.cur = r.cur, !.out = r.out]
                /\ pc' = IF r.out = "raise" THEN "crashed" ELSE pc
                /\ mi' = mi + 1
                /\ UNCHANGED <<ri, oi, di, hcfg>>
    /\ hpre' = heap
    /\ UNCHANGED <<doc, csv, mapping, config, hcall, log, castIn, castOut>>

\* One evaluation of the override loops of main: the loop headers, or one
\* iteration of the loop of update_from_static_config.
CfgStep ==
    /\ pc = "cfg"
    /\ IF oi > NumObjs
       THEN /\ Leave("cfg")
            /\ ev' = [NoEv EXCEPT !.kind = "hdr"]
            /\ UNCHANGED <<heap, log>>
       ELSE IF di > Len(config)
       THEN /\ oi' = oi + 1 /\ di' = 1
            /\ ev' = [NoEv EXCEPT !.kind = "hdr"]
            /\ UNCHANGED <<heap, log, pc, ri, mi, hcfg>>
       ELSE LET d == config[di]
                r == DirEntry(heap, ObjAt(oi), d)
            IN  /\ heap' = r.h
                /\ ev' = [NoEv EXCEPT !.kind = "cfg", !.obj = ObjAt(oi), !.path = d.path,
                                      !.op = d.op, !.hasValue = d.hasValue,
                                      !.value = d.value, !.cur = r.cur, !.out = r.out]
                /\ log' = Append(log, [k |-> "cfg", o |-> oi, i |-> di, out |-> r.out])
                /\ pc' = IF r.out = "raise" THEN "crashed" ELSE pc
                /\ di' = di + 1
                /\ UNCHANGED <<ri, oi, mi, hcfg>>
    /\ hpre' = heap
    /\ UNCHANGED <<doc, csv, mapping, config, hcall, castIn, castOut>>

\* save_json(json_data, output_file).
Save ==
    /\ pc = "save"
    /\ pc' = "done"
    /\ UNCHANGED <<heap, doc, csv, mapping, config, ri, oi, mi, di, ev, hpre, hcall,
                   hcfg, log, castIn, castOut>>

Next == Start \/ RowStep \/ CsvStep \/ CfgStep \/ Save

Spec == Init /\ [][Next]_vars

---------------------------------------------------------------------------
(* The path operations on their own: any sequence of up to MaxOps calls of *)
(* set_value_by_path and remove_value_by_path on a loaded object.          *)

\* The paths written (field steps) and the paths removed.
WritePaths == {Pa, Pb, Pl, Pab, Pbab}
RemovePaths == {Pa, Pb, Pl, Pab, Pbab, Pl0, Pl2, Pb0}

\* The values written: scalars, None and new containers.
ValueTrees == <<TS(VNull), TS(VInt(7)), TS(VStr(<<"s">>)), TS(VBool(FALSE)),
                TM(<<<<"b", TS(VInt(1))>>>>), TL(<<TS(VInt(1)), TS(VInt(2))>>)>>

InitPath ==
    \E d \in 1..Len(DocTrees) :
        /\ DocTrees[d].t = "M"
        /\ heap = Load(EmptyHeap, DocTrees[d]).h
        /\ doc = Load(EmptyHeap, DocTrees[d]).v
        /\ csv = <<>> /\ mapping = <<>> /\ config = <<>>
        /\ pc = "ops"
        /\ ri = 1 /\ oi = 1 /\ mi = 1 /\ di = 0
        /\ ev = NoEv
        /\ hpre = heap /\ hcall = heap /\ hcfg = heap
        /\ log = <<>>
        /\ castIn = VAbsent /\ castOut = VAbsent

\* set_value_by_path(doc, p, v) for a newly built value v; an exception
\* leaves the document as it was.
OpSet ==
    /\ pc = "ops" /\ di < MaxOps
    /\ \E p \in WritePaths, i \in 1..Len(ValueTrees) :
        LET r == Load(heap, ValueTrees[i])
            w == set_value_by_path(r.h, doc, p, r.v)
        IN  /\ heap' = w.h
            /\ ev' = [NoEv EXCEPT !.kind = "set", !.obj = doc, !.path = p, !.value = r.v,
                                  !.cur = get_value_by_path(heap, doc, p), !.out = w.st]
    /\ hpre' = heap
    /\ di' = di + 1
    /\ UNCHANGED <<doc, csv, mapping, config, pc, ri, oi, mi, hcall, hcfg, log, castIn,
                   castOut>>

\* remove_value_by_path(doc, p).
OpRemove ==
    /\ pc = "ops" /\ di < MaxOps
    /\ \E p \in RemovePaths :
        /\ heap' = remove_value_by_path(heap, doc, p)
        /\ ev' = [NoEv EXCEPT !.kind = "remove", !.obj = doc, !.path = p,
                              !.cur = get_value_by_path(heap, doc, p), !.out = "remove"]
    /\ hpre' = heap
    /\ di' = di + 1
    /\ UNCHANGED <<doc, csv, mapping, config, pc, ri, oi, mi, hcall, hcfg, log, castIn,
                   castOut>>

NextPath == OpSet \/ OpRemove

SpecPath == InitPath /\ [][NextPath]_vars

---------------------------------------------------------------------------
(* The cast round trip: cast_value(str(x), get_type_from_value(x)).        *)

CastInputs ==
    {VInt(n) : n \in (0 - MaxInt)..MaxInt}
        \cup {VBool(TRUE), VBool(FALSE)}
        \cup {NormFloat(n, e) : n \in (0 - MaxMant)..MaxMant, e \in 0..MaxScale}

InitCast ==
    /\ castIn \in CastInputs
    /\ castOut = VAbsent
    /\ heap = EmptyHeap /\ doc = VNull
    /\ csv = <<>> /\ mapping = <<>> /\ config = <<>>
    /\ pc = "cast"
    /\ ri = 1 /\ oi = 1 /\ mi = 1 /\ di = 1
    /\ ev = NoEv
    /\ hpre = EmptyHeap /\ hcall = EmptyHeap /\ hcfg = EmptyHeap
    /\ log = <<>>

DoCast ==
    /\ pc = "cast"
    /\ castOut' = cast_value(heap, PyStr(castIn), get_type_from_value(heap, castIn)).v
    /\ pc' = "cast_done"
    /\ UNCHANGED <<heap, doc, csv, mapping, config, ri, oi, mi, di, ev, hpre, hcall, hcfg,
                   log, castIn>>

NextCast == DoCast

SpecCast == InitCast /\ [][NextCast]_vars

---------------------------------------------------------------------------
(* Vocabulary of the properties.                                           *)

\* The content of a value, references followed: what json.dump would write.
RECURSIVE Deep(_, _)
Deep(h, v) ==
    IF v.t # "Ref" THEN [t |-> v.t, v |-> v, c |-> <<>>]
    ELSE IF h[v.n].k = "Map"
    THEN [t |-> "Map", v |-> VNull,
          c |-> [i \in 1..Len(KeySeq) |-> Deep(h, h[v.n].m[KeySeq[i]])]]
    ELSE [t |-> "List", v |-> VNull,
          c |-> [i \in 1..Len(h[v.n].l) |-> Deep(h, h[v.n].l[i])]]

\* The TypeTag of a value.
TagOf(h, v) == get_type_from_value(h, v)

\* The existing prefix of the path is map-shaped: every step before the
\* last leads through a dict, up to the first step that is missing or None.
RECURSIVE MapShaped(_, _, _)
MapShaped(h, cur, path) ==
    /\ IsMap(h, cur)
    /\ \/ Len(path) = 1
       \/ h[cur.n].m[Head(path).f] \in {VAbsent, VNull}
       \/ MapShaped(h, h[cur.n].m[Head(path).f], Tail(path))

\* The dict that holds the last field of the path, VNull when there is none.
ParentOf(h, obj, path) ==
    IF Len(path) = 1 THEN obj
    ELSE get_value_by_path(h, obj, SubSeq(path, 1, Len(path) - 1))

\* The path (of field steps) holds a value, None included.
Holds(h, obj, path) ==
    /\ IsMap(h, ParentOf(h, obj, path))
    /\ h[ParentOf(h, obj, path).n].m[path[Len(path)].f] # VAbsent
HeldValue(h, obj, path) == h[ParentOf(h, obj, path).n].m[path[Len(path)].f]

\* Every step of the path before the last resolves to a dict.
PrefixesAreMaps(h, obj, path) ==
    \A k \in 1..(Len(path) - 1) : IsMap(h, get_value_by_path(h, obj, SubSeq(path, 1, k)))

\* The last step of the path is an index that matches an element of a list
\* other than its last, or a character of a str.
ShiftingIndex(h, obj, path) ==
    LET r == Find(h, obj, path)
    IN  /\ r.st = "match" /\ r.step.k = "I"
        /\ \/ r.parent.t = "Str"
           \/ IsList(h, r.parent) /\ r.step.i + 1 < Len(h[r.parent.n].l)

---------------------------------------------------------------------------
(* Properties.                                                             *)

\* C1 (as claimed): when a call of update_from_csv returns, every mapped
\* path that held a value when the call began holds a value of the same
\* TypeTag.
C1_TypePreserved ==
    ev.kind = "ret" =>
        \A k \in 1..Len(mapping) :
            LET before == get_value_by_path(hcall, ev.obj, mapping[k].path)
                after == get_value_by_path(heap, ev.obj, mapping[k].path)
            IN  before # VNull => TagOf(heap, after) = TagOf(hcall, before)

\* C2 (as claimed): an update directive whose path holds a value (None
\* included) of another TypeTag than the directive's value leaves the whole
\* heap as it was.
C2_MismatchSkipped ==
    (/\ ev.kind = "cfg" /\ ev.op = "update" /\ ev.hasValue /\ ev.path # <<>>
     /\ Holds(hpre, ev.obj, ev.path)
     /\ TagOf(hpre, HeldValue(hpre, ev.obj, ev.path)) # TagOf(hpre, ev.value))
        => heap = hpre

\* C3 (as claimed): after any remove_value_by_path(D, P), get_value_by_path
\* gives None for P and a second remove changes nothing.
C3_RemoveFinalAnyPath ==
    ev.kind = "remove" =>
        /\ get_value_by_path(heap, doc, ev.path) = VNull
        /\ remove_value_by_path(heap, doc, ev.path) = heap

\* C3 (amended): the same, unless the last step of P is an index that
\* matches an element of a list other than its last, or a character of a
\* str.
C3_RemoveFinal ==
    (ev.kind = "remove" /\ ~ShiftingIndex(hpre, doc, ev.path)) =>
        /\ get_value_by_path(heap, doc, ev.path) = VNull
        /\ remove_value_by_path(heap, doc, ev.path) = heap

\* C3 witness: a remove that deleted a key of a nested dict.
C3_Witness ==
    /\ ev.kind = "remove" /\ ev.path = Pab
    /\ ev.cur # VNull
    /\ heap # hpre

C5_NeverAborts == pc # "crashed"

\* The calls of update_from_csv made so far, as (object, row) pairs.
CsvCalls == {j \in 1..Len(log) : log[j].k = "csv"}
Applied == {<<log[j].o, log[j].i>> : j \in CsvCalls}
\* The (object, row) pairs whose identifiers are equal.
Matching == {p \in (1..NumObjs) \X (1..Len(csv)) : RowMatches(heap, csv[p[2]], ObjAt(p[1]))}
\* The pairs main is to apply: all of them for a list, the first matching
\* row alone for a single object.
Expected == IF IsSingle
            THEN {p \in Matching : \A q \in Matching : p[2] <= q[2]}
            ELSE Matching
TableOver == pc \in {"cfg", "save", "done", "crashed"}
ValidTop == IsMap(heap, doc) \/ IsList(heap, doc)

C7_RowMatching ==
    ValidTop =>
        /\ Applied \subseteq Expected
        /\ Cardinality(CsvCalls) = Cardinality(Applied)
        /\ \A i, j \in CsvCalls : i < j => log[i].i <= log[j].i
        /\ TableOver => Applied = Expected

\* C8 (as claimed): an entry whose column is absent from the row or is ID
\* changes nothing; an entry whose column is present and whose path holds no
\* value creates the path with the row's text as a str.
C8_CreateAlways ==
    ev.kind = "csv" =>
        /\ (ev.raw = VAbsent \/ ev.col = "ID") => heap = hpre
        /\ (ev.raw # VAbsent /\ ev.col # "ID" /\ ev.cur = VNull) =>
                /\ ev.out = "created"
                /\ get_value_by_path(heap, ev.obj, ev.path) = VStr(ev.raw.s)

\* C8 (amended): the same for a path whose existing prefix is map-shaped;
\* the steps before the last are dicts afterwards.
C8_CreateAsString ==
    ev.kind = "csv" =>
        /\ (ev.raw = VAbsent \/ ev.col = "ID") => heap = hpre
        /\ (ev.raw # VAbsent /\ ev.col # "ID" /\ ev.cur = VNull
            /\ MapShaped(hpre, ev.obj, ev.path)) =>
                /\ ev.out = "created"
                /\ get_value_by_path(heap, ev.obj, ev.path) = VStr(ev.raw.s)
                /\ PrefixesAreMaps(heap, ev.obj, ev.path)

\* C8 witness: the text "9" stored as a str under a step that was missing.
C8_Witness ==
    /\ ev.kind = "csv" /\ ev.out = "created"
    /\ ev.path = Pab /\ ~Holds(hpre, ev.obj, Pa)
    /\ ev.raw = VStr(<<"9">>)
    /\ get_value_by_path(heap, ev.obj, Pab) = VStr(<<"9">>)

\* C9: cast_value(str(x), get_type_from_value(x)) = x for the ints, bools
\* and decimal floats of the model.
C9_CastRoundTrip == pc = "cast_done" => castOut = castIn

\* C9 witness: True went through "True" and came back True.
C9_Witness == pc = "cast_done" /\ castIn = VBool(TRUE) /\ castOut = VBool(TRUE)

\* update_from_static_config(obj, ds) run to its end on the heap h.
RECURSIVE RunDirs(_, _, _)
RunDirs(h, obj, ds) ==
    IF ds = <<>> THEN h
    ELSE IF DirEntry(h, obj, Head(ds)).out = "raise" THEN h
    ELSE RunDirs(DirEntry(h, obj, Head(ds)).h, obj, Tail(ds))

\* C10 (as claimed): in a list document a directive applied to one object
\* changes no other object and no directive's value, and at the end every
\* object is what update_from_static_config alone would have made of it.
C10_ObjectsIndependent ==
    IsList(heap, doc) =>
        /\ ev.kind = "cfg" =>
            /\ \A o \in 1..NumObjs :
                ObjAt(o) # ev.obj => Deep(heap, ObjAt(o)) = Deep(hpre, ObjAt(o))
            /\ \A d \in 1..Len(config) :
                Deep(heap, config[d].value) = Deep(hpre, config[d].value)
        /\ pc \in {"save", "done"} =>
            \A o \in 1..NumObjs :
                Deep(heap, ObjAt(o)) = Deep(RunDirs(hcfg, ObjAt(o), config), ObjAt(o))

=============================================================================
